---- MODULE Spec2Model ----
(***************************************************************************)
(* Model of scraper/sodre_monitor.py: the SodreMonitor reconciliation run. *)
(*                                                                         *)
(* Python values are modelled as follows.                                  *)
(*   - An optional value is a tuple: None is <<>>, a present value v is    *)
(*     <<v>>.  Every field of a database row or of a snapshot is optional. *)
(*   - A raw JSON value of a scraped lot is a token (a string): JNull for  *)
(*     null or a missing key, "true"/"false" for JSON booleans, "0".."3"   *)
(*     for JSON numbers, "2.0" for the JSON string "2.0", "abc", "" and    *)
(*     " aberto " for other JSON strings.                                  *)
(*   - A dict is a record; dict.get(k, default) looks at DOMAIN.           *)
(*   - A URL is a sequence of tokens; "/" and "?" are tokens of their own. *)
(***************************************************************************)
EXTENDS Integers, Sequences, FiniteSets, TLC

\* ------------------------------------------------------------------ bounds
MaxRuns == 2        \* successive runs of the program over the same database
MaxScraped == 2     \* lots the interceptor captures over all runs
MaxFaults == 1      \* exceptions raised by collaborators over all runs

\* --------------------------------------------------------- Python values
None == <<>>
Some(v) == <<v>>
JNull == "null"

\* dict.get(key, default)
_get(d, key, default) == IF key \in DOMAIN d THEN d[key] ELSE default

\* float(value) / int(value) of the raw tokens; a token outside the table
\* raises ValueError or TypeError
FloatOf == [t \in {"0", "1", "2", "3", "2.0", "true", "false"} |->
              CASE t = "0" -> 0 [] t = "1" -> 1 [] t = "2" -> 2 [] t = "3" -> 3
                [] t = "2.0" -> 2 [] t = "true" -> 1 [] t = "false" -> 0]
IntOf == [t \in {"0", "1", "2", "3", "true", "false"} |-> FloatOf[t]]

\* str(value).strip() of the raw tokens
StripOf == [t \in {"", " aberto ", "aberto", "encerrado", "abc", "0", "1", "2", "3", "2.0",
                   "true", "false"} |->
              CASE t = " aberto " -> "aberto"
                [] t = "true" -> "True" [] t = "false" -> "False"
                [] OTHER -> t]

\* truth value of a raw token: None, False, 0 and "" are falsy
RawTruthy(value) == value \notin {JNull, "false", "0", ""}

\* truth value of an optional number: None and 0 are falsy
NumTruthy(x) == x # None /\ x[1] # 0

_safe_str(value) ==
    IF value = JNull THEN None
    ELSE IF StripOf[value] # "" THEN Some(StripOf[value]) ELSE None

_parse_numeric(value) ==
    IF value = JNull THEN None
    ELSE IF value \in DOMAIN FloatOf THEN Some(FloatOf[value]) ELSE None

_parse_int(value) ==
    IF value = JNull THEN None
    ELSE IF value \in DOMAIN IntOf THEN Some(IntOf[value]) ELSE None

\* ------------------------------------------------------- _create_snapshot
\* The prior state: the last snapshot when there is one, else the base record.
old_bid_actual(db_item, last_snap) ==
    IF last_snap # None THEN last_snap[1].bid_actual ELSE db_item.bid_actual
old_has_bid(db_item, last_snap) ==
    IF last_snap # None THEN last_snap[1].has_bid ELSE _get(db_item, "has_bid", Some(FALSE))
old_lot_visits(db_item, last_snap) ==
    IF last_snap # None THEN last_snap[1].lot_visits ELSE _get(db_item, "lot_visits", Some(0))
old_lot_status(db_item, last_snap) ==
    IF last_snap # None THEN last_snap[1].lot_status ELSE db_item.lot_status
old_auction_status(db_item, last_snap) ==
    IF last_snap # None THEN last_snap[1].auction_status ELSE db_item.auction_status

\* lot_visits = self._parse_int(...) or 0
lot_visits_of(scraped_lot) ==
    LET v == _parse_int(scraped_lot.lot_visits)
    IN  IF NumTruthy(v) THEN v ELSE Some(0)

\* has_bid = bool(scraped_lot.get('bid_has_bid', False))
has_bid_of(scraped_lot) == Some(RawTruthy(scraped_lot.bid_has_bid))

bid_increment_of(bid_actual, old_bid) ==
    IF NumTruthy(bid_actual) /\ NumTruthy(old_bid)
    THEN Some(bid_actual[1] - old_bid[1]) ELSE None

\* a percentage n / d * 100 is kept as the exact fraction <<n * 100, d>>
bid_increment_percentage_of(bid_actual, old_bid) ==
    IF NumTruthy(bid_actual) /\ NumTruthy(old_bid) /\ old_bid[1] > 0
    THEN Some(<<(bid_actual[1] - old_bid[1]) * 100, old_bid[1]>>) ELSE None

bid_total_increment_of(bid_actual, bid_initial) ==
    IF NumTruthy(bid_actual) /\ NumTruthy(bid_initial) /\ bid_initial[1] > 0
    THEN Some(bid_actual[1] - bid_initial[1]) ELSE None

bid_total_increment_percentage_of(bid_actual, bid_initial) ==
    IF NumTruthy(bid_actual) /\ NumTruthy(bid_initial) /\ bid_initial[1] > 0
    THEN Some(<<(bid_actual[1] - bid_initial[1]) * 100, bid_initial[1]>>) ELSE None

visit_increment_of(lot_visits, old_visits) ==
    IF NumTruthy(lot_visits) /\ old_visits # None
    THEN Some(lot_visits[1] - old_visits[1]) ELSE None

\* is_active = auction_status == 'aberto' if auction_status else True
is_active_of(auction_status) ==
    IF auction_status # None THEN auction_status = Some("aberto") ELSE TRUE

\* last_snap.get('total_snapshots_count', 0) + 1; None + 1 raises TypeError,
\* which is reported here as None
total_snapshots_count_of(last_snap) ==
    IF last_snap = None THEN Some(1)
    ELSE LET c == _get(last_snap[1], "total_snapshots_count", Some(0))
         IN  IF c = None THEN None ELSE Some(c[1] + 1)

\* ------------------------------------------------------------ time metrics
\* Instants are whole seconds after 2026-01-02T00:00:00+00:00; the clock
\* counts them.

\* value.replace('Z', '+00:00') of the date strings the lots carry
replace_Z ==
    [v \in {"2026-01-01T23:00:00Z", "2026-01-02T01:00:00+00:00", "2026-01-01T23:00:00",
            "2026-01-01 00:00:01", "amanha"} |->
        IF v = "2026-01-01T23:00:00Z" THEN "2026-01-01T23:00:00+00:00" ELSE v]

\* 'T' in value
has_T == {"2026-01-01T23:00:00+00:00", "2026-01-02T01:00:00+00:00", "2026-01-01T23:00:00"}

\* strptime(value, '%Y-%m-%d %H:%M:%S').strftime('%Y-%m-%dT%H:%M:%S+00:00');
\* a string outside the domain raises ValueError.
strptime == [v \in {"2026-01-01 00:00:01"} |-> "2026-01-01T00:00:01+00:00"]

_parse_datetime(value) ==
    IF ~RawTruthy(value) THEN None
    ELSE IF replace_Z[value] \in has_T THEN Some(replace_Z[value])
    ELSE IF replace_Z[value] \in DOMAIN strptime THEN Some(strptime[replace_Z[value]])
    ELSE None

\* datetime.fromisoformat: the instant, and whether it carries an offset.
fromisoformat ==
    [v \in {"2026-01-01T23:00:00+00:00", "2026-01-02T01:00:00+00:00",
            "2026-01-01T23:00:00", "2026-01-01T00:00:01+00:00"} |->
        CASE v = "2026-01-01T23:00:00+00:00" -> [seconds |-> -3600, aware |-> TRUE]
          [] v = "2026-01-02T01:00:00+00:00" -> [seconds |-> 3600, aware |-> TRUE]
          [] v = "2026-01-01T23:00:00" -> [seconds |-> -3600, aware |-> FALSE]
          [] v = "2026-01-01T00:00:01+00:00" -> [seconds |-> -86399, aware |-> TRUE]]

abs(n) == IF n < 0 THEN -n ELSE n

\* x / 3600 of a whole number of seconds, as the fraction it is
hours(seconds) == <<seconds, 3600>>

\* timedelta.days: the timedelta is normalised with 0 <= seconds < 86400, so
\* the days of a negative one are rounded down.
days(delta) == delta \div 86400

\* Lines 302-317: the three metrics.  Subtracting the aware now from a
\* datetime without offset raises TypeError, which the bare except swallows.
time_metrics(auction_date_init, now) ==
    LET none == [hours_until_auction_start |-> None, hours_since_auction_start |-> None,
                 days_in_auction |-> None]
    IN  IF auction_date_init = None THEN none
        ELSE IF ~fromisoformat[auction_date_init[1]].aware THEN none
        ELSE LET delta == fromisoformat[auction_date_init[1]].seconds - now
             IN  IF delta > 0
                 THEN [none EXCEPT !.hours_until_auction_start = Some(hours(delta))]
                 ELSE [none EXCEPT !.hours_since_auction_start = Some(hours(abs(delta))),
                                   !.days_in_auction = Some(abs(days(delta)))]

\* The body of the try block: the snapshot, or None when the body raises
\* (the except clause returns None).
_create_snapshot(db_item, scraped_lot, last_snap, now) ==
    LET bid_initial == _parse_numeric(scraped_lot.bid_initial)
        bid_actual == _parse_numeric(scraped_lot.bid_actual)
        has_bid == has_bid_of(scraped_lot)
        lot_visits == lot_visits_of(scraped_lot)
        lot_status == _safe_str(scraped_lot.lot_status)
        auction_status == _safe_str(scraped_lot.auction_status)
        lot_status_changed == lot_status # old_lot_status(db_item, last_snap)
        auction_status_changed == auction_status # old_auction_status(db_item, last_snap)
        auction_date_init == _parse_datetime(scraped_lot.auction_date_init)
        metrics == time_metrics(auction_date_init, now)
        total == total_snapshots_count_of(last_snap)
    IN  IF total = None THEN None
        ELSE Some([
            item_id |-> db_item.id,
            external_id |-> db_item.external_id,
            snapshot_at |-> now,
            hours_until_auction_start |-> metrics.hours_until_auction_start,
            hours_since_auction_start |-> metrics.hours_since_auction_start,
            auction_date_init |-> auction_date_init,
            bid_initial |-> bid_initial,
            bid_actual |-> bid_actual,
            bid_increment |-> bid_increment_of(bid_actual, old_bid_actual(db_item, last_snap)),
            bid_increment_percentage |->
                bid_increment_percentage_of(bid_actual, old_bid_actual(db_item, last_snap)),
            bid_total_increment |-> bid_total_increment_of(bid_actual, bid_initial),
            bid_total_increment_percentage |->
                bid_total_increment_percentage_of(bid_actual, bid_initial),
            has_bid |-> has_bid,
            bid_status_changed |-> has_bid # old_has_bid(db_item, last_snap),
            lot_visits |-> lot_visits,
            visit_increment |-> visit_increment_of(lot_visits, old_lot_visits(db_item, last_snap)),
            lot_status |-> lot_status,
            lot_status_changed |-> lot_status_changed,
            auction_status |-> auction_status,
            auction_status_changed |-> auction_status_changed,
            is_active |-> is_active_of(auction_status),
            status_changed |-> lot_status_changed \/ auction_status_changed,
            total_snapshots_count |-> total])

\* ---------------------------------------------------- _create_full_update
\* The replacement record of the base row (the tracked fields of it).
_create_full_update(db_item, scraped_lot, now) ==
    [id |-> db_item.id,
     bid_initial |-> _parse_numeric(scraped_lot.bid_initial),
     bid_actual |-> _parse_numeric(scraped_lot.bid_actual),
     has_bid |-> has_bid_of(scraped_lot),
     lot_visits |-> _parse_int(scraped_lot.lot_visits),
     lot_status |-> _safe_str(scraped_lot.lot_status),
     auction_status |-> _safe_str(scraped_lot.auction_status),
     is_active |-> scraped_lot.auction_status = "aberto",
     updated_at |-> now]

\* ------------------------------------------------------------------ links
leilao_base_url == "https://leilao.sodresantoro.com.br"

RECURSIVE rstrip(_)
\* str.rstrip('/')
rstrip(link) ==
    IF link # <<>> /\ link[Len(link)] = "/"
    THEN rstrip(SubSeq(link, 1, Len(link) - 1)) ELSE link

RECURSIVE split_query(_)
\* str.split('?')[0]
split_query(link) ==
    IF link = <<>> \/ link[1] = "?" THEN <<>>
    ELSE <<link[1]>> \o split_query(Tail(link))

\* link = f"{leilao_base_url}/leilao/{auction_id}/lote/{lot_id}/"; link.rstrip('/')
link_clean(auction_id, lot_id) ==
    rstrip(<<leilao_base_url, "/leilao/", auction_id, "/lote/", lot_id, "/">>)

\* ------------------------------------------------------------- run state
VARIABLES
    sodre_items,        \* table auctions.sodre_items: id -> base row
    sodre_monitoring,   \* table auctions.sodre_monitoring: the rows, in insertion order
    clock,              \* datetime.now(), in whole seconds
    run,                \* the number of the current run of the program
    pc,                 \* the step of run() the program is at
    stats,              \* self.stats
    db_items_by_link,   \* self.db_items_by_link
    db_items_by_id,     \* self.db_items_by_id
    last_snapshots,     \* self.last_snapshots
    scraped_data,       \* all_lots, later scraped_data
    i,                  \* the index of the loop the program is in
    snapshots_batch,    \* snapshots_batch of _process_matches_and_snapshots
    updates_batch,      \* updates_batch of _process_matches_and_snapshots
    snapshot,           \* the loop's local snapshot (None before the first build)
    update,             \* the loop's local update
    faults,             \* exceptions raised so far by the collaborators
    captured,           \* lots captured so far by all runs
    printed,            \* final statistics reports printed by the current process
    exit_code           \* the exit status of the process (None while it runs)

vars == <<sodre_items, sodre_monitoring, clock, run, pc, stats, db_items_by_link,
          db_items_by_id, last_snapshots, scraped_data, i, snapshots_batch,
          updates_batch, snapshot, update, faults, captured, printed, exit_code>>

db == <<sodre_items, sodre_monitoring>>
indices == <<db_items_by_link, db_items_by_id, last_snapshots>>
batches == <<snapshots_batch, updates_batch, snapshot, update>>
out == <<printed, exit_code>>

\* self.stats of __init__
stats0 ==
    [items_scraped |-> 0, items_matched |-> 0, items_new |-> 0,
     snapshots_created |-> 0, items_updated |-> 0, bid_changes |-> 0,
     visit_changes |-> 0, status_changes |-> 0, errors |-> 0]

\* ------------------------------------------------------- the environment
\* The chunk sizes of the source are 500 rows per insert and 1000 ids per
\* lookup.  They are scaled down to one row and one id, so that a batch of two
\* snapshots and a table of two items already span more than one chunk.
batch_size == 1
id_chunk == 1

\* The rows the tables hold before the first run.
BaseRow(id, lot, tail, bid, visits) ==
    [id |-> id, external_id |-> lot,
     link |-> <<leilao_base_url, "/leilao/", "100", "/lote/", lot>> \o tail,
     bid_initial |-> Some(1), bid_actual |-> bid, has_bid |-> Some(FALSE),
     lot_visits |-> visits, lot_status |-> None, auction_status |-> None,
     is_active |-> TRUE, updated_at |-> 0]

\* A snapshot of item 1 a previous run left, without a count field.
OldSnapshot ==
    [item_id |-> 1, external_id |-> "5", snapshot_at |-> 0, bid_initial |-> Some(1),
     bid_actual |-> Some(1), bid_increment |-> None,
     bid_increment_percentage |-> None, bid_total_increment |-> Some(0),
     bid_total_increment_percentage |-> Some(<<0, 1>>),
     has_bid |-> Some(FALSE), bid_status_changed |-> FALSE,
     lot_visits |-> Some(2), visit_increment |-> None,
     lot_status |-> None, lot_status_changed |-> FALSE,
     auction_status |-> None, auction_status_changed |-> FALSE,
     is_active |-> TRUE, status_changed |-> FALSE]

\* The same row with the count c (None for a null column).
WithCount(row, c) ==
    [k \in DOMAIN row \cup {"total_snapshots_count"} |->
        IF k = "total_snapshots_count" THEN c ELSE row[k]]

Items(bid, visits) ==
    [id \in {1, 2} |->
        IF id = 1 THEN BaseRow(1, "5", <<"/">>, bid, visits)
        ELSE BaseRow(2, "6", <<"?", "utm=1">>, Some(1), Some(2))]

\* The tables before the first run: item 1 has no snapshot yet, or has one.
InitialTables ==
    { <<Items(None, None), <<>>>>, <<Items(Some(0), Some(0)), <<>>>>,
      <<Items(Some(1), Some(2)), <<>>>>,
      <<Items(Some(1), Some(2)), <<OldSnapshot>>>>,
      <<Items(Some(1), Some(2)), <<WithCount(OldSnapshot, None)>>>>,
      <<Items(Some(1), Some(2)), <<WithCount(OldSnapshot, Some(3))>>>> }

\* The lots the interceptor can capture.
Lot(auction_id, lot_id, bid, visits, status, date) ==
    [auction_id |-> auction_id, lot_id |-> lot_id, auction_date_init |-> date,
     bid_initial |-> "1",
     bid_actual |-> bid, bid_has_bid |-> "false", lot_visits |-> visits,
     lot_status |-> status, auction_status |-> "aberto"]

Lots ==
    { Lot("100", "5", "0", "0", JNull, "2026-01-01T23:00:00Z"),
      Lot("100", "5", "2", "2", JNull, "2026-01-02T01:00:00+00:00"),
      Lot("100", "5", JNull, "2", JNull, "2026-01-01T23:00:00"),
      Lot("100", "6", "1", "2", " aberto ", "2026-01-01 00:00:01"),
      Lot("100", "9", "1", "2", JNull, "amanha"),
      Lot(JNull, "5", "1", "2", JNull, JNull) }

\* ------------------------------------------------------------------- Init
\* SodreMonitor.__init__ of the first run, over the tables as they are.
Init ==
    /\ \E t \in InitialTables : sodre_items = t[1] /\ sodre_monitoring = t[2]
    /\ clock = 1
    /\ run = 1
    /\ pc = "load_items"
    /\ stats = stats0
    /\ db_items_by_link = <<>>
    /\ db_items_by_id = <<>>
    /\ last_snapshots = <<>>
    /\ scraped_data = <<>>
    /\ i = 0
    /\ snapshots_batch = <<>>
    /\ updates_batch = <<>>
    /\ snapshot = None
    /\ update = None
    /\ faults = 0
    /\ captured = 0
    /\ printed = 0
    /\ exit_code = None

\* ---------------------------------------------------- _load_database_items
\* The index by link: a later row of the response replaces an earlier one
\* with the same key.
index_by_link(rows) ==
    LET key(id) == rstrip(split_query(rows[id].link))
        last(k) == CHOOSE id \in DOMAIN rows :
                      /\ key(id) = k
                      /\ \A j \in DOMAIN rows : key(j) = k => j <= id
    IN  [k \in {key(id) : id \in DOMAIN rows} |-> rows[last(k)]]

LoadDatabaseItems ==
    /\ pc = "load_items"
    /\ db_items_by_link' = index_by_link(sodre_items)
    /\ db_items_by_id' = sodre_items
    /\ pc' = "load_snaps"
    /\ i' = 0
    /\ UNCHANGED <<db, out, clock, run, stats, last_snapshots, scraped_data, batches, faults, captured>>

\* The query raises: the except clause re-raises, main() prints the error and
\* calls exit(1).
LoadDatabaseItemsFails ==
    /\ pc = "load_items"
    /\ faults < MaxFaults
    /\ faults' = faults + 1
    /\ pc' = "aborted"
    /\ exit_code' = Some(1)
    /\ UNCHANGED <<db, printed, clock, run, stats, indices, scraped_data, i, batches, captured>>

\* ------------------------------------------------------ _load_last_snapshots
\* item_ids[i:i+id_chunk] of the ids in the order of the response (by id)
id_batch(ids, from) == {id \in ids : from < id /\ id <= from + id_chunk}

\* The first row of an item in the response ordered by snapshot_at descending.
latest_of(rows, id) ==
    LET mine == {n \in DOMAIN rows : rows[n].item_id = id}
    IN  rows[CHOOSE n \in mine :
                \A m \in mine : /\ rows[m].snapshot_at <= rows[n].snapshot_at
                                /\ (rows[m].snapshot_at = rows[n].snapshot_at => n <= m)]

LoadLastSnapshots ==
    /\ pc = "load_snaps"
    /\ LET ids == DOMAIN db_items_by_id
           batch == id_batch(ids, i)
           found == {id \in batch : \E n \in DOMAIN sodre_monitoring :
                                       sodre_monitoring[n].item_id = id}
       IN  /\ last_snapshots' =
                [id \in DOMAIN last_snapshots \cup found |->
                    IF id \in found THEN latest_of(sodre_monitoring, id)
                    ELSE last_snapshots[id]]
           /\ i' = i + id_chunk
           /\ pc' = IF i + id_chunk < Cardinality(ids) THEN "load_snaps" ELSE "scrape"
    /\ UNCHANGED <<db, out, clock, run, stats, db_items_by_link, db_items_by_id,
                   scraped_data, batches, faults, captured>>

\* A slip: the except clause counts an error, as those of the writes do.
LoadLastSnapshotsFails_counted ==
    /\ pc = "load_snaps"
    /\ DOMAIN db_items_by_id # {}
    /\ faults < MaxFaults
    /\ faults' = faults + 1
    /\ stats' = [stats EXCEPT !.errors = @ + 1]
    /\ pc' = "scrape"
    /\ UNCHANGED <<db, out, clock, run, indices, scraped_data, i, batches, captured>>

\* The query of a chunk raises: the except clause prints and returns.
LoadLastSnapshotsFails ==
    /\ pc = "load_snaps"
    /\ DOMAIN db_items_by_id # {}
    /\ faults < MaxFaults
    /\ faults' = faults + 1
    /\ pc' = "scrape"
    /\ UNCHANGED <<db, out, clock, run, stats, indices, scraped_data, i, batches, captured>>

\* --------------------------------------------------- _scrape_with_interception
\* intercept_response: all_lots.extend(results), one lot at a time
Intercept ==
    /\ pc = "scrape"
    /\ captured < MaxScraped
    /\ captured' = captured + 1
    /\ \E lot \in Lots : scraped_data' = Append(scraped_data, lot)
    /\ UNCHANGED <<db, out, clock, run, pc, stats, indices, i, batches, faults>>

\* The browser cannot be started: the exception leaves run(), main() exits 1.
ScrapeFails ==
    /\ pc = "scrape"
    /\ scraped_data = <<>>
    /\ faults < MaxFaults
    /\ faults' = faults + 1
    /\ pc' = "aborted"
    /\ exit_code' = Some(1)
    /\ UNCHANGED <<db, printed, clock, run, stats, indices, scraped_data, i, batches, captured>>

\* self.stats['items_scraped'] = len(all_lots); return all_lots
ScrapeDone ==
    /\ pc = "scrape"
    /\ stats' = [stats EXCEPT !.items_scraped = Len(scraped_data)]
    /\ pc' = "process"
    /\ i' = 1
    /\ UNCHANGED <<db, out, clock, run, indices, scraped_data, batches, faults, captured>>

\* ------------------------------------------- _process_matches_and_snapshots
\* A slip: the unmatched lot is counted as matched too.
count_new_also_matched(st) == [st EXCEPT !.items_new = @ + 1, !.items_matched = @ + 1]

\* self.stats['items_new'] += 1
count_new(st) == [st EXCEPT !.items_new = @ + 1]

\* A slip: the match is counted inside "if snapshot:", so a matched lot whose
\* snapshot could not be built is not counted as matched.
count_matched_only_built(st, snap, upd) ==
    LET s1 == [st EXCEPT !.errors = @ + (IF snap = None THEN 1 ELSE 0)
                                      + (IF upd = None THEN 1 ELSE 0)]
    IN  IF snap = None THEN s1
        ELSE [s1 EXCEPT
                !.items_matched = @ + 1,
                !.snapshots_created = @ + 1,
                !.bid_changes = @ + (IF snap[1].bid_status_changed THEN 1 ELSE 0),
                !.visit_changes = @ + (IF NumTruthy(snap[1].visit_increment)
                                          /\ snap[1].visit_increment[1] > 0 THEN 1 ELSE 0),
                !.status_changes = @ + (IF snap[1].status_changed THEN 1 ELSE 0)]

\* A slip: a failed update build is not counted as an error.
count_matched_update_uncounted(st, snap, upd) ==
    LET s1 == [st EXCEPT !.items_matched = @ + 1,
                         !.errors = @ + (IF snap = None THEN 1 ELSE 0)]
    IN  IF snap = None THEN s1
        ELSE [s1 EXCEPT
                !.snapshots_created = @ + 1,
                !.bid_changes = @ + (IF snap[1].bid_status_changed THEN 1 ELSE 0),
                !.visit_changes = @ + (IF NumTruthy(snap[1].visit_increment)
                                          /\ snap[1].visit_increment[1] > 0 THEN 1 ELSE 0),
                !.status_changes = @ + (IF snap[1].status_changed THEN 1 ELSE 0)]

\* The counters of a matched lot: the match, the errors the two builders
\* counted, the snapshot and its change flags.
count_matched(st, snap, upd) ==
    LET s1 == [st EXCEPT !.items_matched = @ + 1,
                         !.errors = @ + (IF snap = None THEN 1 ELSE 0)
                                      + (IF upd = None THEN 1 ELSE 0)]
    IN  IF snap = None THEN s1
        ELSE [s1 EXCEPT
                !.snapshots_created = @ + 1,
                !.bid_changes = @ + (IF snap[1].bid_status_changed THEN 1 ELSE 0),
                !.visit_changes = @ + (IF NumTruthy(snap[1].visit_increment)
                                          /\ snap[1].visit_increment[1] > 0 THEN 1 ELSE 0),
                !.status_changes = @ + (IF snap[1].status_changed THEN 1 ELSE 0)]

\* if snapshot: snapshots_batch.append(snapshot)
append_built(batch, built) == IF built # None THEN Append(batch, built[1]) ELSE batch

\* self.last_snapshots.get(db_item['id'])
last_snap_of(db_item) ==
    IF db_item.id \in DOMAIN last_snapshots THEN Some(last_snapshots[db_item.id]) ELSE None

\* One iteration of the loop over scraped_data.
ProcessLot ==
    /\ pc = "process"
    /\ i <= Len(scraped_data)
    /\ i' = i + 1
    /\ LET scraped_lot == scraped_data[i]
           auction_id == scraped_lot.auction_id
           lot_id == scraped_lot.lot_id
       IN  IF ~RawTruthy(auction_id) \/ ~RawTruthy(lot_id)
           THEN UNCHANGED <<stats, batches, clock, faults>>
           ELSE IF link_clean(auction_id, lot_id) \notin DOMAIN db_items_by_link
           THEN /\ stats' = count_new(stats)
                /\ UNCHANGED <<batches, clock, faults>>
           ELSE \E raised \in BOOLEAN :
                LET db_item == db_items_by_link[link_clean(auction_id, lot_id)]
                    snap == _create_snapshot(db_item, scraped_lot, last_snap_of(db_item), clock)
                    upd == IF raised THEN None
                           ELSE Some(_create_full_update(db_item, scraped_lot, clock))
                IN  /\ raised => faults < MaxFaults
                    /\ faults' = IF raised THEN faults + 1 ELSE faults
                    /\ snapshot' = snap
                    /\ update' = upd
                    /\ snapshots_batch' = append_built(snapshots_batch, snap)
                    /\ updates_batch' = append_built(updates_batch, upd)
                    /\ stats' = count_matched(stats, snap, upd)
                    /\ clock' = clock + 1
    /\ UNCHANGED <<db, out, run, pc, indices, scraped_data, captured>>

\* After the loop: the two persistence calls, each only for a non-empty batch.
ProcessDone ==
    /\ pc = "process"
    /\ i > Len(scraped_data)
    /\ pc' = IF snapshots_batch # <<>> THEN "insert"
             ELSE IF updates_batch # <<>> THEN "update" ELSE "stats"
    /\ i' = IF snapshots_batch # <<>> THEN 0 ELSE 1
    /\ UNCHANGED <<db, out, clock, run, stats, indices, scraped_data, batches, faults, captured>>

\* ---------------------------------------------------- _insert_snapshots_batch
\* snapshots[i:i+batch_size]
chunk(snapshots, from) ==
    SubSeq(snapshots, from + 1,
           IF from + batch_size < Len(snapshots) THEN from + batch_size ELSE Len(snapshots))

\* Where run() goes when _insert_snapshots_batch returns.
after_insert == IF updates_batch # <<>> THEN "update" ELSE "stats"

\* The insert of one chunk succeeds.
InsertChunk ==
    /\ pc = "insert"
    /\ sodre_monitoring' = sodre_monitoring \o chunk(snapshots_batch, i)
    /\ IF i + batch_size < Len(snapshots_batch)
       THEN pc' = "insert" /\ i' = i + batch_size
       ELSE pc' = after_insert /\ i' = 1
    /\ UNCHANGED <<sodre_items, out, clock, run, stats, indices, scraped_data, batches,
                   faults, captured>>

\* except Exception: self.stats['errors'] += len(snapshots)
count_insert_error(st, snapshots) == [st EXCEPT !.errors = @ + Len(snapshots)]

\* A slip: the insert has no except clause, the exception leaves run().
InsertChunkFails_propagates ==
    /\ pc = "insert"
    /\ faults < MaxFaults
    /\ faults' = faults + 1
    /\ pc' = "aborted"
    /\ exit_code' = Some(1)
    /\ UNCHANGED <<db, printed, clock, run, stats, indices, scraped_data, i, batches, captured>>

\* The insert of one chunk raises: the except clause is outside the loop.
InsertChunkFails ==
    /\ pc = "insert"
    /\ faults < MaxFaults
    /\ faults' = faults + 1
    /\ stats' = count_insert_error(stats, snapshots_batch)
    /\ pc' = after_insert
    /\ i' = 1
    /\ UNCHANGED <<db, out, clock, run, indices, scraped_data, batches, captured>>

\* --------------------------------------------------- _update_base_items_batch
\* .update(update).eq('id', item_id): the row's columns take the update's values
apply_update(row, upd) ==
    [k \in DOMAIN row |-> IF k \in DOMAIN upd /\ k # "id" THEN upd[k] ELSE row[k]]

\* self.stats['items_updated'] += 1
count_updated(st) == [st EXCEPT !.items_updated = @ + 1]

\* A slip: the counter is incremented before the query, so a failed update
\* is counted as updated too.
count_update_error_and_updated(st) ==
    [st EXCEPT !.errors = @ + 1, !.items_updated = @ + 1]

\* except Exception (inside the loop): self.stats['errors'] += 1
count_update_error(st) == [st EXCEPT !.errors = @ + 1]

\* Where the loop over updates goes after the update at position i.
after_update == IF i < Len(updates_batch) THEN "update" ELSE "stats"

\* A slip: the in-memory copy of the row is refreshed with the update, so an
\* index changes after the load steps.
UpdateItem_refreshing_index ==
    /\ pc = "update"
    /\ LET upd == updates_batch[i]
       IN  /\ sodre_items' = [sodre_items EXCEPT ![upd.id] = apply_update(@, upd)]
           /\ db_items_by_id' = [db_items_by_id EXCEPT ![upd.id] = apply_update(@, upd)]
    /\ stats' = count_updated(stats)
    /\ pc' = after_update
    /\ i' = i + 1
    /\ UNCHANGED <<sodre_monitoring, out, clock, run, db_items_by_link, last_snapshots,
                   scraped_data, batches, faults, captured>>

\* The update of one row succeeds.
UpdateItem ==
    /\ pc = "update"
    /\ LET upd == updates_batch[i]
       IN  sodre_items' = [sodre_items EXCEPT ![upd.id] = apply_update(@, upd)]
    /\ stats' = count_updated(stats)
    /\ pc' = after_update
    /\ i' = i + 1
    /\ UNCHANGED <<sodre_monitoring, out, clock, run, indices, scraped_data, batches,
                   faults, captured>>

\* The update of one row raises.
UpdateItemFails ==
    /\ pc = "update"
    /\ faults < MaxFaults
    /\ faults' = faults + 1
    /\ stats' = count_update_error(stats)
    /\ pc' = after_update
    /\ i' = i + 1
    /\ UNCHANGED <<db, out, clock, run, indices, scraped_data, batches, captured>>

\* --------------------------------------------------------------- _print_stats
\* The last call of run(); main() returns and the process ends with status 0.
PrintStats ==
    /\ pc = "stats"
    /\ pc' = "done"
    /\ printed' = printed + 1
    /\ exit_code' = Some(0)
    /\ UNCHANGED <<db, clock, run, stats, indices, scraped_data, i, batches, faults,
                   captured>>

\* The program is started again: __init__ of a new SodreMonitor.
NewRun ==
    /\ pc \in {"done", "aborted"}
    /\ run < MaxRuns
    /\ run' = run + 1
    /\ pc' = "load_items"
    /\ stats' = stats0
    /\ db_items_by_link' = <<>>
    /\ db_items_by_id' = <<>>
    /\ last_snapshots' = <<>>
    /\ scraped_data' = <<>>
    /\ i' = 0
    /\ snapshots_batch' = <<>>
    /\ updates_batch' = <<>>
    /\ snapshot' = None
    /\ update' = None
    /\ printed' = 0
    /\ exit_code' = None
    /\ UNCHANGED <<db, clock, faults, captured>>

Next ==
    \/ LoadDatabaseItems
    \/ LoadDatabaseItemsFails
    \/ LoadLastSnapshots
    \/ LoadLastSnapshotsFails
    \/ Intercept
    \/ ScrapeFails
    \/ ScrapeDone
    \/ ProcessLot
    \/ ProcessDone
    \/ InsertChunk
    \/ InsertChunkFails
    \/ UpdateItem
    \/ UpdateItemFails
    \/ PrintStats
    \/ NewRun

Spec == Init /\ [][Next]_vars

\* The process is sequential and nothing in it waits: while a step is
\* possible, one is taken.
FairSpec == Spec /\ WF_vars(Next)

\* =================================================================== claims
\* The identity key of a lot as the specification states it: the leilao URL
\* of (auction_id, lot_id) without a trailing slash.
IdentityKey(lot) == <<leilao_base_url, "/leilao/", lot.auction_id, "/lote/", lot.lot_id>>

HasIds(lot) == lot.auction_id \notin {JNull, ""} /\ lot.lot_id \notin {JNull, ""}

\* The lot has both ids and its key is the key of no loaded base record.
IsUnmatched(lot) == HasIds(lot) /\ IdentityKey(lot) \notin DOMAIN db_items_by_link
\* The loaded base record a lot matches.
ItemOf(lot) == db_items_by_link[IdentityKey(lot)]

\* The loop is about to process scraped_data[i].
AboutToProcess == pc = "process" /\ i <= Len(scraped_data)

\* The loop has just processed the matched lot scraped_data[i - 1]; the locals
\* snapshot and update are the ones built for it.
JustProcessedMatched ==
    /\ pc = "process" /\ i > 1
    /\ HasIds(scraped_data[i - 1])
    /\ IdentityKey(scraped_data[i - 1]) \in DOMAIN db_items_by_link
LastLot == scraped_data[i - 1]
LastItem == ItemOf(LastLot)
LastHadSnapshot == LastItem.id \in DOMAIN last_snapshots
LastPrior == IF LastHadSnapshot THEN last_snapshots[LastItem.id] ELSE LastItem

\* C1: a lot whose identity key matches no loaded base record adds nothing to
\* the snapshot batch or the update batch, creates no base record, and
\* increments items_new by exactly 1, changing no other counter.
C1_UnmatchedCountsNewOnly ==
    [][ (AboutToProcess /\ IsUnmatched(scraped_data[i])) =>
          /\ snapshots_batch' = snapshots_batch
          /\ updates_batch' = updates_batch
          /\ sodre_items' = sodre_items
          /\ sodre_monitoring' = sodre_monitoring
          /\ db_items_by_link' = db_items_by_link
          /\ db_items_by_id' = db_items_by_id
          /\ stats'.items_new = stats.items_new + 1
          /\ \A k \in DOMAIN stats \ {"items_new"} : stats'[k] = stats[k] ]_vars

\* Two unmatched lots were processed: both counted as new, nothing batched.
C1_Witness ==
    /\ pc = "process" /\ i = 3
    /\ IsUnmatched(scraped_data[1]) /\ IsUnmatched(scraped_data[2])
    /\ stats.items_new = 2 /\ stats.items_matched = 0
    /\ snapshots_batch = <<>> /\ updates_batch = <<>>

\* The count of the latest loaded snapshot of an item; 0 when the count is
\* missing or null.
PriorCount(row) ==
    LET c == _get(row, "total_snapshots_count", None)
    IN  IF c = None THEN 0 ELSE c[1]

\* C2: for every matched lot a snapshot is built whose total_snapshots_count
\* is 1 when the item has no previous snapshot and N + 1 when its latest
\* loaded snapshot has count N, whatever that snapshot's count field holds
\* (a missing or null count is a count of 0).
C2_SnapshotCount ==
    JustProcessedMatched =>
        /\ snapshot # None
        /\ snapshot[1].total_snapshots_count =
              Some(IF LastHadSnapshot THEN PriorCount(LastPrior) + 1 ELSE 1)

\* The tracked fields of a lot are those of a recorded snapshot.
Unchanged(lot, row) ==
    /\ _parse_numeric(lot.bid_actual) = row.bid_actual
    /\ has_bid_of(lot) = row.has_bid
    /\ lot_visits_of(lot) = row.lot_visits
    /\ _safe_str(lot.lot_status) = row.lot_status
    /\ _safe_str(lot.auction_status) = row.auction_status

\* C3: in a run after the first, a matched lot whose tracked fields are those
\* of the snapshot the previous run recorded for the item gets a snapshot with
\* status_changed = false, bid_status_changed = false, visit_increment = 0 and
\* a count one greater than that snapshot's, whatever the unchanged values are
\* (lot_visits = 0 and absent statuses included).
C3_UnchangedRun ==
    ( /\ JustProcessedMatched
      /\ run > 1
      /\ LastHadSnapshot
      /\ LastPrior.snapshot_at > 0
      /\ Unchanged(LastLot, LastPrior) ) =>
        /\ snapshot # None
        /\ snapshot[1].status_changed = FALSE
        /\ snapshot[1].bid_status_changed = FALSE
        /\ snapshot[1].visit_increment = Some(0)
        /\ snapshot[1].total_snapshots_count = Some(LastPrior.total_snapshots_count[1] + 1)

\* C4: bid_increment of a built snapshot is non-null exactly when the lot's
\* bid_actual and the prior state's bid_actual are both non-null, and is then
\* the current value minus the previous one (0 is a value like any other).
C4_BidIncrement ==
    (JustProcessedMatched /\ snapshot # None) =>
        LET cur == _parse_numeric(LastLot.bid_actual)
            old == LastPrior.bid_actual
        IN  /\ (snapshot[1].bid_increment # None) <=> (cur # None /\ old # None)
            /\ (cur # None /\ old # None) =>
                  snapshot[1].bid_increment = Some(cur[1] - old[1])

Sign(n) == IF n > 0 THEN 1 ELSE IF n < 0 THEN -1 ELSE 0

\* C5: when the lot's lot_visits and the prior state's lot_visits are both
\* known, visit_increment of a built snapshot is non-null and has the sign of
\* current visits minus previous visits (a current count of 0 included).
C5_VisitIncrementSign ==
    (JustProcessedMatched /\ snapshot # None) =>
        LET cur == _parse_int(LastLot.lot_visits)
            old == LastPrior.lot_visits
        IN  (cur # None /\ old # None) =>
                /\ snapshot[1].visit_increment # None
                /\ Sign(snapshot[1].visit_increment[1]) = Sign(cur[1] - old[1])

\* C6: a run batches at most one snapshot and at most one update per base
\* record, whatever the list of lots (a lot may appear twice in it); so no two
\* snapshots of one item in a run's batch carry the same count.
C6_OncePerLot ==
    /\ \A a, b \in DOMAIN snapshots_batch :
          a # b => snapshots_batch[a].item_id # snapshots_batch[b].item_id
    /\ \A a, b \in DOMAIN updates_batch :
          a # b => updates_batch[a].id # updates_batch[b].id

\* C7: each step of the update loop either updates the row and counts it in
\* items_updated, or fails, counts one error and leaves every row as it is;
\* it never touches another row (no rollback), and the loop goes on to the
\* next update either way, so items_updated plus the failures is the number
\* of updates.
C7_UpdateLoop ==
    [][ pc = "update" =>
          LET upd == updates_batch[i]
              done == stats'.items_updated - stats.items_updated
              failed == stats'.errors - stats.errors
          IN  /\ done \in {0, 1} /\ failed \in {0, 1} /\ done + failed = 1
              /\ failed = 1 => sodre_items' = sodre_items
              /\ done = 1 => /\ sodre_items'[upd.id].updated_at = upd.updated_at
                             /\ sodre_items'[upd.id].bid_actual = upd.bid_actual
                             /\ sodre_items'[upd.id].lot_visits = upd.lot_visits
              /\ \A id \in DOMAIN sodre_items :
                    id # upd.id => sodre_items'[id] = sodre_items[id]
              /\ i' = i + 1
              /\ pc' = IF i < Len(updates_batch) THEN "update" ELSE "stats"
              /\ (pc' = "stats" /\ stats.items_updated + stats.errors = i - 1) =>
                    stats'.items_updated + stats'.errors = Len(updates_batch) ]_vars

\* The update of item 1 failed and the update of item 2, after it, succeeded.
C7_Witness ==
    /\ pc = "stats"
    /\ Len(updates_batch) = 2
    /\ updates_batch[1].id = 1 /\ updates_batch[2].id = 2
    /\ stats.items_updated = 1 /\ stats.errors = 1
    /\ sodre_items[1].updated_at = 0
    /\ sodre_items[2].updated_at = updates_batch[2].updated_at

\* C8: when the insert of a chunk fails, the chunks after it are still
\* attempted: whatever happens to a chunk that is not the last one, the loop
\* moves on to the next chunk.
C8_ChunkLoopContinues ==
    [][ (pc = "insert" /\ i + batch_size < Len(snapshots_batch)) =>
            (pc' = "insert" /\ i' = i + batch_size) ]_vars

\* The snapshots of the batch that are not in the table.
NotPersisted(table) ==
    Cardinality({n \in DOMAIN snapshots_batch :
                    \A m \in DOMAIN table : table[m] # snapshots_batch[n]})

\* C9: a failed chunk insert adds to errors the number of snapshots of that
\* chunk, so the errors it adds never exceed the snapshots of the batch that
\* were not persisted.
C9_ErrorsCountFailedChunk ==
    [][ pc = "insert" =>
          LET added == stats'.errors - stats.errors
          IN  /\ added \in {0, Len(chunk(snapshots_batch, i))}
              /\ added <= NotPersisted(sodre_monitoring') ]_vars

\* C10: when the snapshot or the update of a matched lot cannot be built, no
\* exception leaves the loop: errors grows by 1 for each of the two that
\* failed, the failed one is not batched, the other one is, and the loop goes
\* on to the next lot.
C10_BuildFailureIsCounted ==
    [][ (AboutToProcess /\ HasIds(scraped_data[i])
         /\ IdentityKey(scraped_data[i]) \in DOMAIN db_items_by_link) =>
          LET snap_failed == snapshot' = None
              upd_failed == update' = None
          IN  /\ stats'.errors = stats.errors + (IF snap_failed THEN 1 ELSE 0)
                                              + (IF upd_failed THEN 1 ELSE 0)
              /\ snapshots_batch' = IF snap_failed THEN snapshots_batch
                                    ELSE Append(snapshots_batch, snapshot'[1])
              /\ updates_batch' = IF upd_failed THEN updates_batch
                                  ELSE Append(updates_batch, update'[1])
              /\ pc' = "process"
              /\ i' = i + 1 ]_vars

\* Both builds of the first lot failed, and the second lot was then processed
\* and both its records batched.
C10_Witness ==
    /\ pc = "process" /\ i = 3
    /\ stats.items_matched = 2 /\ stats.errors = 2
    /\ Len(snapshots_batch) = 1 /\ Len(updates_batch) = 1
    /\ snapshots_batch[1].item_id = 2 /\ updates_batch[1].id = 2
    /\ snapshot # None /\ update # None

\* ---------------------------------------------------------------------- C11
\* The position of a step of run() in the pipeline.
Rank(p) ==
    CASE p = "load_items" -> 1
      [] p = "load_snaps" -> 2
      [] p = "scrape" -> 3
      [] p = "process" -> 4
      [] p = "insert" -> 5
      [] p = "update" -> 6
      [] p = "stats" -> 7
      [] p = "done" -> 8
      [] p = "aborted" -> 8

\* The step starts a new process.
StartsNewRun == run' = run + 1

\* The step matches a lot or builds a snapshot or an update.
ProcessesALot ==
    \/ stats'.items_matched # stats.items_matched
    \/ stats'.items_new # stats.items_new
    \/ snapshots_batch' # snapshots_batch
    \/ updates_batch' # updates_batch

\* C11: a run is strictly sequential.  Within a run the pipeline never goes
\* back; a lot is matched and its snapshot built only in the processing
\* step, which is entered after both loads; the processing step is left only
\* when every lot has been processed; a snapshot is inserted only in the
\* insert step, before any base record is updated; a base record is updated
\* only in the update step; the three indices change only in the load steps.
C11_StrictlySequential ==
    [][ \/ StartsNewRun
        \/ /\ Rank(pc') >= Rank(pc)
           /\ ProcessesALot => pc = "process" /\ pc' = "process"
           /\ (pc = "process" /\ pc' # "process") => i > Len(scraped_data)
           /\ sodre_monitoring' # sodre_monitoring =>
                  pc = "insert" /\ stats.items_updated = 0
           /\ sodre_items' # sodre_items => pc = "update"
           /\ db_items_by_link' # db_items_by_link => pc = "load_items"
           /\ db_items_by_id' # db_items_by_id => pc = "load_items"
           /\ last_snapshots' # last_snapshots => pc = "load_snaps" ]_vars

\* A run that loaded a snapshot, inserted a new one and updated a base record.
C11_Witness ==
    /\ pc = "stats"
    /\ last_snapshots # <<>>
    /\ stats.items_updated >= 1
    /\ \E n \in DOMAIN sodre_monitoring : sodre_monitoring[n].snapshot_at >= 1

\* ---------------------------------------------------------------------- C12
\* C12: a run that meets no setup-level failure prints the final statistics
\* exactly once, whatever later failures occur, and ends with status 0; only
\* a failure of the base-record load or of the start of the scrape aborts,
\* and an aborted run prints no statistics and exits with status 1.
\* Every run ends (the leads-to); it ends with status 1 only by a failing
\* setup step, and with status 0 only by printing its one report.
C12_StatisticsOnce ==
    /\ [](/\ printed <= 1
          /\ pc = "done" <=> printed = 1
          /\ pc = "done" <=> exit_code = Some(0)
          /\ pc = "aborted" <=> exit_code = Some(1))
    /\ [][pc' = "aborted" => /\ pc \in {"load_items", "scrape"}
                             /\ faults' = faults + 1
                             /\ printed' = 0]_vars
    /\ (exit_code = None) ~> (exit_code # None)

\* The same progress without fairness: while the run has not ended a step
\* that needs no failure is possible, and every step of a run moves forward
\* in the pipeline or in the loop it is in.
C12_Progress ==
    /\ [](exit_code = None => ENABLED (Next /\ faults' = faults))
    /\ [][ \/ StartsNewRun
           \/ Rank(pc') > Rank(pc)
           \/ pc' = pc /\ i' > i
           \/ pc' = pc /\ captured' > captured ]_vars

\* A run with a counted failure after the setup that printed its statistics.
C12_Witness == pc = "done" /\ printed = 1 /\ stats.errors > 0 /\ exit_code = Some(0)

\* ---------------------------------------------------------------------- C13
\* The start of the auction of the lot just processed, when its
\* auction_date_init parses to an instant that can be compared with now.
LastStartParses ==
    /\ _parse_datetime(LastLot.auction_date_init) # None
    /\ fromisoformat[_parse_datetime(LastLot.auction_date_init)[1]].aware
LastStart == fromisoformat[_parse_datetime(LastLot.auction_date_init)[1]].seconds
LastNow == snapshot[1].snapshot_at
LastMetrics == time_metrics(_parse_datetime(LastLot.auction_date_init), LastNow)

\* The two hour metrics of the snapshot of a lot whose start parses: one of
\* them is null, the other is the distance between start and now in hours.
C13_Hours ==
    (JustProcessedMatched /\ snapshot # None /\ LastStartParses) =>
        IF LastStart > LastNow
        THEN /\ snapshot[1].hours_until_auction_start = Some(<<LastStart - LastNow, 3600>>)
             /\ snapshot[1].hours_since_auction_start = None
             /\ LastMetrics.days_in_auction = None
        ELSE /\ snapshot[1].hours_until_auction_start = None
             /\ snapshot[1].hours_since_auction_start = Some(<<LastNow - LastStart, 3600>>)

\* C13: when auction_date_init parses and the start is not in the future,
\* hours_until is null, hours_since is the elapsed time in hours and
\* days_in_auction is the whole days elapsed, floor(elapsed seconds / 86400);
\* when the start is in the future only hours_until is non-null, and positive.
C13_TimeMetrics ==
    /\ C13_Hours
    /\ (JustProcessedMatched /\ snapshot # None /\ LastStartParses /\ LastStart <= LastNow) =>
          LastMetrics.days_in_auction = Some((LastNow - LastStart) \div 86400)

\* What the code computes: the days elapsed rounded up.
C13_DaysRoundedUp ==
    (JustProcessedMatched /\ snapshot # None /\ LastStartParses /\ LastStart <= LastNow) =>
        LastMetrics.days_in_auction = Some(((LastNow - LastStart) + 86399) \div 86400)

\* ---------------------------------------------------------------------- C14
\* The step is a failing query of _load_last_snapshots.
SnapshotLoadFails == pc = "load_snaps" /\ faults' = faults + 1

\* The snapshot of the lot just processed is computed against the base record.
LastAgainstBaseRecord ==
    /\ snapshot # None
    /\ snapshot[1].total_snapshots_count = Some(1)
    /\ snapshot[1].bid_status_changed = (snapshot[1].has_bid # LastItem.has_bid)
    /\ snapshot[1].lot_status_changed = (snapshot[1].lot_status # LastItem.lot_status)
    /\ snapshot[1].auction_status_changed =
          (snapshot[1].auction_status # LastItem.auction_status)
    /\ NumTruthy(LastItem.lot_visits) /\ NumTruthy(snapshot[1].lot_visits) =>
          snapshot[1].visit_increment = Some(snapshot[1].lot_visits[1] - LastItem.lot_visits[1])
    /\ LastItem.bid_actual = None => snapshot[1].bid_increment = None

\* C14: a failing load of the latest snapshots does not abort the run and
\* counts no error, the snapshots of the earlier chunks stay loaded, and a
\* matched item without a loaded snapshot is processed against its base
\* record and gets total_snapshots_count = 1.
C14_SnapshotLoadFailure ==
    /\ [][SnapshotLoadFails => /\ pc' = "scrape"
                               /\ exit_code' = None
                               /\ stats' = stats
                               /\ last_snapshots' = last_snapshots]_vars
    /\ []((JustProcessedMatched /\ ~LastHadSnapshot) => LastAgainstBaseRecord)

\* The load failed at the first chunk, and item 1, whose persisted snapshot
\* counts 3, got a snapshot that counts 1.
C14_Witness ==
    /\ JustProcessedMatched /\ ~LastHadSnapshot /\ LastItem.id = 1
    /\ \E n \in DOMAIN sodre_monitoring :
          /\ sodre_monitoring[n].item_id = 1
          /\ "total_snapshots_count" \in DOMAIN sodre_monitoring[n]
          /\ sodre_monitoring[n].total_snapshots_count = Some(3)
    /\ snapshot # None /\ snapshot[1].total_snapshots_count = Some(1)

\* The load failed at a later chunk: the snapshot of an earlier one is loaded.
C14_KeptEarlierChunk ==
    pc = "scrape" /\ faults = 1 /\ i = id_chunk /\ last_snapshots # <<>>

\* ---------------------------------------------------------------------- C15
\* The lots of scraped_data the loop has been through.
Processed ==
    IF pc = "process" THEN i - 1
    ELSE IF pc \in {"insert", "update", "stats", "done"} THEN Len(scraped_data)
    ELSE 0

\* How many of the first n lots have both ids.
WithIds(n) == Cardinality({k \in 1..n : HasIds(scraped_data[k])})

\* C15: items_matched + items_new is the number of processed lots that have
\* both an auction_id and a lot_id; a lot lacking one is skipped and changes
\* no counter; snapshots_created and items_updated are at most items_matched;
\* bid_changes, visit_changes and status_changes are at most snapshots_created.
C15_Counters ==
    /\ [](/\ stats.items_matched + stats.items_new = WithIds(Processed)
          /\ stats.snapshots_created <= stats.items_matched
          /\ stats.items_updated <= stats.items_matched
          /\ stats.bid_changes <= stats.snapshots_created
          /\ stats.visit_changes <= stats.snapshots_created
          /\ stats.status_changes <= stats.snapshots_created)
    /\ [][(AboutToProcess /\ ~HasIds(scraped_data[i]) /\ i' = i + 1) =>
              stats' = stats /\ batches' = batches]_vars

\* A finished run over a lot without auction_id and a matched lot whose
\* snapshot and update were written.
C15_Witness ==
    /\ pc = "done"
    /\ Len(scraped_data) = 2 /\ WithIds(2) = 1
    /\ stats.items_matched = 1 /\ stats.items_new = 0
    /\ stats.snapshots_created = 1 /\ stats.items_updated = 1

====
